---- MODULE Spec2Model ----
(***************************************************************************)
(* Model of the calculation engine of streamlit_app.py: the sizing         *)
(* function dimensionar_sistema, the cash-flow projection                  *)
(* calcular_fluxo_caixa, the payback derivation of                         *)
(* renderizar_projecao_financeira, the payment plans of                    *)
(* renderizar_pagamento, the panel count kept in st.session_state by       *)
(* renderizar_dimensionamento, and the data flow of main.                  *)
(*                                                                         *)
(* Python floats are modelled as exact rationals <<n, d>> (d > 0, lowest   *)
(* terms); rounding error of IEEE doubles is outside the model.            *)
(***************************************************************************)
EXTENDS Integers, Sequences, FiniteSets, TLC

VARIABLES
    dim_called,     \* TRUE once dimensionar_sistema has been called
    dim_args,       \* arguments of the call of dimensionar_sistema
    dim_ret,        \* what that call returned
    fc_args,        \* arguments of the call of calcular_fluxo_caixa
    fc_pc,          \* "idle" (not called yet), "start", "loop", "returned"
                    \* (calcular_fluxo_caixa), "done" (payback derived)
    ano,            \* the year the for loop has last processed (0 before the first)
    fluxo_acumulado_com_solar,
    gasto_acumulado_sem_solar,
    fluxo_caixa_acumulado_list,
    gasto_sem_solar_acumulado_list,
    loc,            \* the locals of the loop body as the last iteration left them
    df_plot,        \* the returned data frame (columns Ano, gasto, fluxo)
    payback_ano_num,
    payback_ano_str,
    payback_div,    \* the divisors of the interpolation divisions performed
    pag_called,     \* TRUE once renderizar_pagamento has run
    pag_args,       \* valor_sistema_base and the values of the payment widgets
    pag_ret,        \* what renderizar_pagamento returned
    session_state,  \* st.session_state: qtd_paineis, manual_override, autoconsumo_slider_1
    entradas,       \* the values the widgets hold
    evento,         \* what started the last run of the script
    antes,          \* st.session_state as it was when that event arrived
    main_pc,        \* the step main is about to take: "dim", "eco", "pag", "proj", "fim"
    resultados_dim, \* what renderizar_dimensionamento returned
    resultados_eco  \* what renderizar_simulacao_economia returned

dim_vars == <<dim_called, dim_args, dim_ret>>

fc_vars ==
    <<fc_args, fc_pc, ano, fluxo_acumulado_com_solar, gasto_acumulado_sem_solar,
      fluxo_caixa_acumulado_list, gasto_sem_solar_acumulado_list, loc, df_plot,
      payback_ano_num, payback_ano_str, payback_div>>

pag_vars == <<pag_called, pag_args, pag_ret>>

sessao_vars == <<session_state, entradas, evento, antes>>

main_vars == <<main_pc, resultados_dim, resultados_eco>>

vars == <<dim_vars, fc_vars, pag_vars, sessao_vars, main_vars>>

\* What the steps of one part leave alone.
outside_dim == <<fc_vars, pag_vars, sessao_vars, main_vars>>

outside_fc == <<dim_vars, pag_vars, sessao_vars, main_vars>>

outside_pag == <<dim_vars, fc_vars, sessao_vars, main_vars>>

outside_sessao == <<dim_vars, fc_vars, pag_vars, main_pc, resultados_eco>>

----------------------------------------------------------------------------
(* Exact rational arithmetic standing for Python's float operators.        *)

Abs(i) == IF i < 0 THEN -i ELSE i

RECURSIVE GCD(_, _)
GCD(a, b) == IF b = 0 THEN a ELSE GCD(b, a % b)

Norm(n, d) == LET g == GCD(Abs(n), d) IN <<n \div g, d \div g>>

R(i) == <<i, 1>>

Zero == R(0)

One == R(1)

RNeg(a) == <<-a[1], a[2]>>

RAdd(a, b) ==
    LET g == GCD(a[2], b[2])
    IN  Norm(a[1] * (b[2] \div g) + b[1] * (a[2] \div g), a[2] * (b[2] \div g))

RSub(a, b) == RAdd(a, RNeg(b))

RMul(a, b) ==
    LET g1 == GCD(Abs(a[1]), b[2])
        g2 == GCD(Abs(b[1]), a[2])
    IN  <<(a[1] \div g1) * (b[1] \div g2), (a[2] \div g2) * (b[2] \div g1)>>

RInv(b) == IF b[1] > 0 THEN <<b[2], b[1]>> ELSE <<-b[2], -b[1]>>

RDiv(a, b) == RMul(a, RInv(b))

RLt(a, b) == RSub(a, b)[1] < 0

RLe(a, b) == RSub(a, b)[1] <= 0

RMax(a, b) == IF RLt(a, b) THEN b ELSE a

RAbs(a) == <<Abs(a[1]), a[2]>>

RECURSIVE RPow(_, _)
RPow(a, k) == IF k = 0 THEN One ELSE RMul(a, RPow(a, k - 1))

Floor(a) == a[1] \div a[2]

Ceil(a) == -((-a[1]) \div a[2])

\* Python 3 round(): to the nearest integer, a tie going to the even one.
Round(a) ==
    LET f == Floor(a)
        twice == 2 * (a[1] - f * a[2])
    IN  IF twice < a[2] THEN f
        ELSE IF twice > a[2] THEN f + 1
        ELSE IF f % 2 = 0 THEN f ELSE f + 1

IntMax(i, j) == IF i < j THEN j ELSE i

----------------------------------------------------------------------------
(* dimensionar_sistema                                                     *)

\* None is the empty sequence, an override k is <<k>>.
None == <<>>

ZeroResult == [qtd |-> 0, kwp_total |-> Zero, geracao_mensal |-> Zero, raised |-> FALSE]

\* A ZeroDivisionError raised by the division kwh_mensal / energia_por_painel_mes.
RaisedResult == [qtd |-> 0, kwp_total |-> Zero, geracao_mensal |-> Zero, raised |-> TRUE]

pot_painel_kw(pot_painel_w) == RDiv(R(pot_painel_w), R(1000))

energia_por_painel_mes(hsp, perdas_frac, pot_painel_w) ==
    RMul(RMul(RMul(pot_painel_kw(pot_painel_w), hsp), R(30)), RSub(One, perdas_frac))

EntradaInvalida(kwh_mensal, hsp, pot_painel_w) ==
    RLe(kwh_mensal, Zero) \/ RLe(hsp, Zero) \/ pot_painel_w <= 0

EnergiaNaoPositivaMut(energia) == FALSE

EnergiaNaoPositiva(energia) == RLe(energia, Zero)

qtd_recomendadaMut(kwh_mensal, energia) == IntMax(1, Floor(RDiv(kwh_mensal, energia)))

qtd_recomendada(kwh_mensal, energia) == IntMax(1, Ceil(RDiv(kwh_mensal, energia)))

qtd_efetivaMut(qtd_paineis_override, recomendada) ==
    IF qtd_paineis_override # None /\ qtd_paineis_override[1] > recomendada
    THEN qtd_paineis_override[1]
    ELSE recomendada

qtd_efetiva(qtd_paineis_override, recomendada) ==
    IF qtd_paineis_override # None /\ qtd_paineis_override[1] > 0
    THEN qtd_paineis_override[1]
    ELSE recomendada

dimensionar_sistema(kwh_mensal, hsp, perdas_frac, pot_painel_w, qtd_paineis_override) ==
    IF EntradaInvalida(kwh_mensal, hsp, pot_painel_w) THEN ZeroResult
    ELSE LET energia == energia_por_painel_mes(hsp, perdas_frac, pot_painel_w)
         IN  IF EnergiaNaoPositiva(energia) THEN ZeroResult
             ELSE IF energia = Zero THEN RaisedResult
             ELSE LET qtd == qtd_efetiva(qtd_paineis_override,
                                         qtd_recomendada(kwh_mensal, energia))
                  IN  [qtd |-> qtd,
                       kwp_total |-> RMul(R(qtd), pot_painel_kw(pot_painel_w)),
                       geracao_mensal |-> RMul(R(qtd), energia),
                       raised |-> FALSE]

----------------------------------------------------------------------------
(* calcular_fluxo_caixa                                                    *)

FIO_B_PERCENT_MAP ==
    (2023 :> 15) @@ (2024 :> 30) @@ (2025 :> 45) @@ (2026 :> 60) @@ (2027 :> 75)
        @@ (2028 :> 90)

ano_calendarioMut(ano_inicio_projeto, y) == ano_inicio_projeto + (y - 2)

ano_calendario(ano_inicio_projeto, y) == ano_inicio_projeto + (y - 1)

\* FIO_B_PERCENT_MAP.get(ano_calendario, 100.0)
percent_fio_b_a_pagar(ano_cal) ==
    IF ano_cal \in DOMAIN FIO_B_PERCENT_MAP THEN R(FIO_B_PERCENT_MAP[ano_cal]) ELSE R(100)

Percent(p) == RDiv(p, R(100))

\* (1 + inflacao_energia) ** (ano - 1) and (1 - degradacao_anual) ** (ano - 1)
tarifa_kwh_inflacionada(tarifa_kwh_inicial, inflacao_energia, y) ==
    RMul(tarifa_kwh_inicial, RPow(RAdd(One, inflacao_energia), y - 1))

taxa_iluminacao_inflacionada(taxa_iluminacao_publica, inflacao_energia, y) ==
    RMul(taxa_iluminacao_publica, RPow(RAdd(One, inflacao_energia), y - 1))

geracao_mensal_degradada(geracao_mensal_inicial, degradacao_anual, y) ==
    RMul(geracao_mensal_inicial, RPow(RSub(One, degradacao_anual), y - 1))

gasto_anual_sem_solar(kwh_mensal_consumo, tarifa, taxa) ==
    RAdd(RMul(RMul(kwh_mensal_consumo, R(12)), tarifa), RMul(taxa, R(12)))

energia_excedenteMut(geracao, autoconsumo_frac) == RMul(geracao, autoconsumo_frac)

energia_excedente(geracao, autoconsumo_frac) == RMul(geracao, RSub(One, autoconsumo_frac))

valor_tarifa_fio_b_estimado_kwh(tarifa, fracao_fio_b_percent) ==
    RMul(tarifa, Percent(fracao_fio_b_percent))

custo_fio_b_anualMut(excedente, valor_fio_b, percent) ==
    RMul(RMul(excedente, valor_fio_b), Percent(percent))

custo_fio_b_anual(excedente, valor_fio_b, percent) ==
    RMul(RMul(RMul(excedente, valor_fio_b), Percent(percent)), R(12))

custo_disponibilidade_anual(kwh_minimo_disponibilidade, tarifa) ==
    RMul(RMul(R(kwh_minimo_disponibilidade), tarifa), R(12))

gasto_novo_anualMut(custo_fio_b, custo_disponibilidade, taxa) ==
    RAdd(custo_fio_b, custo_disponibilidade)

gasto_novo_anual(custo_fio_b, custo_disponibilidade, taxa) ==
    RAdd(RAdd(custo_fio_b, custo_disponibilidade), RMul(taxa, R(12)))

economia_liquida_anualMut(gasto_antigo_anual, gasto_novo) ==
    RSub(gasto_antigo_anual, gasto_novo)

economia_liquida_anual(gasto_antigo_anual, gasto_novo) ==
    RMax(Zero, RSub(gasto_antigo_anual, gasto_novo))

\* The locals of one pass of the loop body for year y, in the order the body
\* assigns them.
Locals(a, y) ==
    LET percent == percent_fio_b_a_pagar(ano_calendario(a.ano_inicio_projeto, y))
        tarifa == tarifa_kwh_inflacionada(a.tarifa_kwh_inicial, a.inflacao_energia, y)
        taxa == taxa_iluminacao_inflacionada(a.taxa_iluminacao_publica,
                                             a.inflacao_energia, y)
        geracao == geracao_mensal_degradada(a.geracao_mensal_inicial,
                                            a.degradacao_anual, y)
        gasto_sem == gasto_anual_sem_solar(a.kwh_mensal_consumo, tarifa, taxa)
        excedente == energia_excedente(geracao, Percent(R(a.autoconsumo_percent)))
        valor_fio_b == valor_tarifa_fio_b_estimado_kwh(tarifa, a.fracao_fio_b_percent)
        custo_fio_b == custo_fio_b_anual(excedente, valor_fio_b, percent)
        custo_disp == custo_disponibilidade_anual(a.kwh_minimo_disponibilidade, tarifa)
        gasto_novo == gasto_novo_anual(custo_fio_b, custo_disp, taxa)
    IN  [percent_fio_b_a_pagar |-> percent,
         tarifa_kwh_inflacionada |-> tarifa,
         taxa_iluminacao_inflacionada |-> taxa,
         geracao_mensal_degradada |-> geracao,
         gasto_anual_sem_solar |-> gasto_sem,
         energia_excedente |-> excedente,
         custo_fio_b_anual |-> custo_fio_b,
         custo_disponibilidade_anual |-> custo_disp,
         gasto_novo_anual |-> gasto_novo,
         economia_liquida_anual |-> economia_liquida_anual(gasto_sem, gasto_novo)]

NoLocals ==
    [percent_fio_b_a_pagar |-> Zero, tarifa_kwh_inflacionada |-> Zero,
     taxa_iluminacao_inflacionada |-> Zero, geracao_mensal_degradada |-> Zero,
     gasto_anual_sem_solar |-> Zero, energia_excedente |-> Zero,
     custo_fio_b_anual |-> Zero, custo_disponibilidade_anual |-> Zero,
     gasto_novo_anual |-> Zero, economia_liquida_anual |-> Zero]

EmptyFrame == [Ano |-> <<>>, gasto |-> <<>>, fluxo |-> <<>>]

\* payback_ano_str: "+ 25 anos", "~ n meses" or "Ano n".
BeyondHorizon == [kind |-> "+ 25 anos", n |-> 0]

Meses(n) == [kind |-> "~ meses", n |-> n]

AnoLabel(n) == [kind |-> "Ano", n |-> n]

fluxo_inicialMut(valor_final_investimento) == Zero

\* fluxo_acumulado_com_solar = -valor_final_investimento
fluxo_inicial(valor_final_investimento) == RNeg(valor_final_investimento)

acumularMut(acumulado, anual) == anual

\* acumulado += anual
acumular(acumulado, anual) == RAdd(acumulado, anual)

\* Lines 146-156: the accumulators before the loop.
FluxoEntry ==
    /\ fc_pc = "start"
    /\ fc_pc' = "loop"
    /\ ano' = 0
    /\ fluxo_caixa_acumulado_list' = <<>>
    /\ gasto_sem_solar_acumulado_list' = <<>>
    /\ fluxo_acumulado_com_solar' = fluxo_inicial(fc_args.valor_final_investimento)
    /\ gasto_acumulado_sem_solar' = Zero
    /\ UNCHANGED <<fc_args, loc, df_plot, payback_ano_num, payback_ano_str, payback_div,
                   outside_fc>>

\* Lines 158-194: one pass of "for ano in lista_anos".
FluxoIter ==
    /\ fc_pc = "loop"
    /\ ano < fc_args.anos
    /\ LET y == ano + 1
           l == Locals(fc_args, y)
           gasto == acumular(gasto_acumulado_sem_solar, l.gasto_anual_sem_solar)
           fluxo == acumular(fluxo_acumulado_com_solar, l.economia_liquida_anual)
       IN  /\ ano' = y
           /\ loc' = l
           /\ gasto_acumulado_sem_solar' = gasto
           /\ gasto_sem_solar_acumulado_list' = Append(gasto_sem_solar_acumulado_list, gasto)
           /\ fluxo_acumulado_com_solar' = fluxo
           /\ fluxo_caixa_acumulado_list' = Append(fluxo_caixa_acumulado_list, fluxo)
    /\ UNCHANGED <<fc_args, fc_pc, df_plot, payback_ano_num, payback_ano_str, payback_div,
                   outside_fc>>

\* Lines 196-202: the data frame returned when the loop is over.
FluxoReturn ==
    /\ fc_pc = "loop"
    /\ ano >= fc_args.anos
    /\ fc_pc' = "returned"
    /\ df_plot' = [Ano |-> [i \in 1 .. IntMax(fc_args.anos, 0) |-> i],
                   gasto |-> gasto_sem_solar_acumulado_list,
                   fluxo |-> fluxo_caixa_acumulado_list]
    /\ UNCHANGED <<fc_args, ano, fluxo_acumulado_com_solar, gasto_acumulado_sem_solar,
                   fluxo_caixa_acumulado_list, gasto_sem_solar_acumulado_list, loc,
                   payback_ano_num, payback_ano_str, payback_div, outside_fc>>

----------------------------------------------------------------------------
(* The payback derivation of renderizar_projecao_financeira.               *)

\* The rows of df whose accumulated cash flow is > 0.
anos_positivos_dfMut(df) == {i \in 1 .. Len(df.fluxo) : df.fluxo[i][1] >= 0}

anos_positivos_df(df) == {i \in 1 .. Len(df.fluxo) : df.fluxo[i][1] > 0}

\* .iloc[0]: the first of the rows.
First(rows) == CHOOSE i \in rows : \A j \in rows : i <= j

total_mesesMut(num, fracao_ano) == Round(RMul(fracao_ano, R(12)))

\* Lines 787 and 798-799: the months reported for payback year num.
total_meses(num, fracao_ano) ==
    IF num = 1
    THEN IntMax(1, Round(RMul(fracao_ano, R(12))))
    ELSE (num - 1) * 12 + Round(RMul(fracao_ano, R(12)))

\* The accumulation the payback year started from: -valor_final_investimento
\* for year 1 (line 781), the previous row otherwise (line 792).
valor_anterior(df, valor_final_investimento, row) ==
    IF df.Ano[row] = 1 THEN RNeg(valor_final_investimento)
    ELSE df.fluxo[CHOOSE i \in 1 .. Len(df.Ano) : df.Ano[i] = df.Ano[row] - 1]

\* Lines 783 and 794.
ganho_no_ano(df, valor_final_investimento, row) ==
    RSub(df.fluxo[row], valor_anterior(df, valor_final_investimento, row))

interpolaMut(ganho) == TRUE

\* "if ganho_no_ano > 0" (lines 785 and 796)
interpola(ganho) == RLt(Zero, ganho)

\* A division by zero raises ZeroDivisionError, which "except Exception: pass"
\* (lines 803-804) swallows, the label staying "+ 25 anos".
payback_str(df, valor_final_investimento, row) ==
    LET num == df.Ano[row]
        anterior == valor_anterior(df, valor_final_investimento, row)
        ganho == ganho_no_ano(df, valor_final_investimento, row)
    IN  IF interpola(ganho)
        THEN IF ganho = Zero THEN BeyondHorizon
             ELSE Meses(total_meses(num, RDiv(RAbs(anterior), ganho)))
        ELSE AnoLabel(num)

\* The divisors of the divisions of lines 786 and 797 that are executed.
divisores(df, valor_final_investimento, row) ==
    LET ganho == ganho_no_ano(df, valor_final_investimento, row)
    IN  IF interpola(ganho) THEN <<ganho>> ELSE <<>>

\* Lines 774-804.
Payback ==
    /\ fc_pc = "returned"
    /\ fc_pc' = "done"
    /\ LET rows == anos_positivos_df(df_plot)
       IN  IF rows = {}
           THEN /\ payback_ano_str' = BeyondHorizon
                /\ UNCHANGED <<payback_ano_num, payback_div>>
           ELSE /\ payback_ano_num' = df_plot.Ano[First(rows)]
                /\ payback_ano_str' =
                       payback_str(df_plot, fc_args.valor_final_investimento, First(rows))
                /\ payback_div' =
                       divisores(df_plot, fc_args.valor_final_investimento, First(rows))
    /\ UNCHANGED <<fc_args, ano, fluxo_acumulado_com_solar, gasto_acumulado_sem_solar,
                   fluxo_caixa_acumulado_list, gasto_sem_solar_acumulado_list, loc,
                   df_plot, outside_fc>>

----------------------------------------------------------------------------
(* renderizar_pagamento                                                    *)

TAXA_FIXA_CARTAO == 2286

CUSTO_CARENCIA_FINANC == 1350

A_VISTA == "A vista (5% desconto)"

FINANCIAMENTO == "Financiamento"

CARTAO == "Cartao de credito"

valor_a_vistaMut(valor_sistema_base) == valor_sistema_base

\* valor_final = valor_sistema_base * 0.95
valor_a_vista(valor_sistema_base) == RMul(valor_sistema_base, <<95, 100>>)

valor_financiadoMut(valor_sistema_base, carencia) == valor_sistema_base

valor_financiado(valor_sistema_base, carencia) ==
    RAdd(valor_sistema_base, R(carencia * CUSTO_CARENCIA_FINANC))

valor_com_taxa_fixa(valor_sistema_base) == RAdd(valor_sistema_base, R(TAXA_FIXA_CARTAO))

taxa_positivaMut(i) == TRUE

\* "if i > 0"
taxa_positiva(i) == RLt(Zero, i)

fator_descontoMut(i, n) == RPow(RAdd(One, i), n)

\* (1 + i) ** (-n), for 1 + i # 0
fator_desconto(i, n) == RInv(RPow(RAdd(One, i), n))

\* Lines 649-652 and 669-672: <<parcela>>, or <<>> when the division raises
\* ZeroDivisionError.
parcela_mensal(valor, i, n) ==
    IF taxa_positiva(i)
    THEN LET den == RSub(One, fator_desconto(i, n))
         IN  IF den = Zero THEN <<>> ELSE <<RDiv(RMul(valor, i), den)>>
    ELSE IF n = 0 THEN <<>> ELSE <<RDiv(valor, R(n))>>

PagRaised(modalidade) ==
    [modalidade |-> modalidade, valor_final |-> Zero, parcela_mensal |-> None,
     raised |-> TRUE]

\* The plan of an amortized modality: valor the principal, taxa the monthly
\* rate in percent, n the number of installments.
plano(modalidade, valor, taxa, n) ==
    LET parcela == parcela_mensal(valor, Percent(taxa), n)
    IN  IF parcela = <<>> THEN PagRaised(modalidade)
        ELSE [modalidade |-> modalidade,
              valor_final |-> RMul(parcela[1], R(n)),
              parcela_mensal |-> parcela,
              raised |-> FALSE]

\* w holds the values of the widgets: modalidade, meses, carencia, taxa_mes,
\* parcelas_cartao, taxa_cartao.
renderizar_pagamento(valor_sistema_base, w) ==
    IF w.modalidade = A_VISTA
    THEN [modalidade |-> w.modalidade,
          valor_final |-> valor_a_vista(valor_sistema_base),
          parcela_mensal |-> None,
          raised |-> FALSE]
    ELSE IF w.modalidade = FINANCIAMENTO
    THEN plano(w.modalidade, valor_financiado(valor_sistema_base, w.carencia),
               w.taxa_mes, w.meses)
    ELSE IF w.modalidade = CARTAO
    THEN plano(w.modalidade, valor_com_taxa_fixa(valor_sistema_base),
               w.taxa_cartao, w.parcelas_cartao)
    ELSE [modalidade |-> w.modalidade,
          valor_final |-> valor_sistema_base,
          parcela_mensal |-> None,
          raised |-> FALSE]

NoPag ==
    [modalidade |-> A_VISTA, valor_final |-> Zero, parcela_mensal |-> None,
     raised |-> FALSE]

DefaultWidgets ==
    [modalidade |-> A_VISTA, meses |-> 1, carencia |-> 0, taxa_mes |-> R(2),
     parcelas_cartao |-> 1, taxa_cartao |-> R(2)]

PagIdle ==
    /\ pag_called = FALSE
    /\ pag_args = [valor_sistema_base |-> Zero, w |-> DefaultWidgets]
    /\ pag_ret = NoPag

----------------------------------------------------------------------------
(* renderizar_dimensionamento and the panel count of st.session_state      *)

\* No key set: "qtd_paineis" not in st.session_state.  manual_override is
\* created together with qtd_paineis and read only when qtd_paineis is there.
SessaoVazia ==
    [qtd_paineis |-> None, manual_override |-> FALSE, autoconsumo_slider_1 |-> 40]

NoDim ==
    [qtd_final |-> 0, kwp_total |-> Zero, geracao_mensal |-> Zero,
     valor_sistema_base |-> Zero, qtd_recomendada |-> 0, raised |-> FALSE]

\* Line 414: qtd_recomendada or 1
ou_1(qtd) == IF qtd = 0 THEN 1 ELSE qtd

segue_recomendacaoMut(manual_override) == TRUE

\* Line 419: elif not st.session_state.manual_override
segue_recomendacao(manual_override) == ~manual_override

\* Lines 416-420.
sincronizar(ss, recomendada) ==
    IF ss.qtd_paineis = None
    THEN [ss EXCEPT !.qtd_paineis = <<recomendada>>, !.manual_override = FALSE]
    ELSE IF segue_recomendacao(ss.manual_override)
    THEN [ss EXCEPT !.qtd_paineis = <<recomendada>>]
    ELSE ss

pode_diminuirMut(qtd) == TRUE

\* Line 423: if st.session_state.qtd_paineis > 1
pode_diminuir(qtd) == qtd > 1

\* Lines 422-425.
diminuir_paineis(ss) ==
    IF pode_diminuir(ss.qtd_paineis[1])
    THEN [ss EXCEPT !.qtd_paineis = <<ss.qtd_paineis[1] - 1>>, !.manual_override = TRUE]
    ELSE ss

\* Lines 427-429.
aumentar_paineis(ss) ==
    [ss EXCEPT !.qtd_paineis = <<ss.qtd_paineis[1] + 1>>, !.manual_override = TRUE]

\* Lines 431-433; the st.rerun() asks for the run that follows a callback anyway.
resetar_paineis(ss) == [ss EXCEPT !.manual_override = FALSE]

valor_sistema_baseMut(kwp_total, valor_kwp) == valor_kwp

\* Line 461.
valor_sistema_base(kwp_total, valor_kwp) == RMul(kwp_total, valor_kwp)

\* Lines 411-420 and 458-482: the session state the call leaves and what it returns.
renderizar_dimensionamento(kwh_mensal, hsp, perdas_percent, pot_painel_w, valor_kwp, ss) ==
    LET perdas_frac == Percent(perdas_percent)
        primeira == dimensionar_sistema(kwh_mensal, hsp, perdas_frac, pot_painel_w, None)
        recomendada == ou_1(primeira.qtd)
        ss2 == sincronizar(ss, recomendada)
        final == dimensionar_sistema(kwh_mensal, hsp, perdas_frac, pot_painel_w,
                                     ss2.qtd_paineis)
    IN  IF primeira.raised
        THEN [session_state |-> ss, ret |-> [NoDim EXCEPT !.raised = TRUE]]
        ELSE IF final.raised
        THEN [session_state |-> ss2, ret |-> [NoDim EXCEPT !.raised = TRUE]]
        ELSE [session_state |-> ss2,
              ret |-> [qtd_final |-> final.qtd,
                       kwp_total |-> final.kwp_total,
                       geracao_mensal |-> final.geracao_mensal,
                       valor_sistema_base |->
                           valor_sistema_base(final.kwp_total, valor_kwp),
                       qtd_recomendada |-> recomendada,
                       raised |-> FALSE]]

\* The run of the script for the widget values e, as far as the panel count
\* goes: the other steps of main read and write neither qtd_paineis nor
\* manual_override.
executar(e, ss) ==
    renderizar_dimensionamento(e.kwh_mensal, e.hsp, e.perdas_percent, e.pot_painel_w,
                               e.valor_kwp, ss)

----------------------------------------------------------------------------
(* renderizar_simulacao_economia and the data flow of main                 *)

MINIMO_KWH_MAP == ("Monofasico" :> 30) @@ ("Bifasico" :> 50) @@ ("Trifasico" :> 100)

\* Line 945: MINIMO_KWH_MAP.get(tipo_conexao, 100)
kwh_minimo_disponibilidade(tipo_conexao) ==
    IF tipo_conexao \in DOMAIN MINIMO_KWH_MAP THEN MINIMO_KWH_MAP[tipo_conexao] ELSE 100

percentual_pagamento_ano1Mut(ano_inicio_projeto) == R(100)

\* Line 510: FIO_B_PERCENT_MAP.get(ano_inicio_projeto, 100.0)
percentual_pagamento_ano1(ano_inicio_projeto) ==
    IF ano_inicio_projeto \in DOMAIN FIO_B_PERCENT_MAP
    THEN R(FIO_B_PERCENT_MAP[ano_inicio_projeto])
    ELSE R(100)

gasto_antigo_mensal(kwh_mensal_consumo, tarifa_kwh, taxa_iluminacao_publica) ==
    RAdd(RMul(kwh_mensal_consumo, tarifa_kwh), taxa_iluminacao_publica)

custo_fio_b_mensal(excedente, valor_fio_b, percentual) ==
    RMul(RMul(excedente, valor_fio_b), Percent(percentual))

custo_disponibilidade_mensal(kwh_minimo, tarifa_kwh) == RMul(R(kwh_minimo), tarifa_kwh)

gasto_novo_mensal(custo_disponibilidade, custo_fio_b, taxa_iluminacao_publica) ==
    RAdd(RAdd(custo_disponibilidade, custo_fio_b), taxa_iluminacao_publica)

\* Line 522: max(0, gasto_antigo_mensal - gasto_novo_mensal)
economia_mensal_total(gasto_antigo, gasto_novo) ==
    RMax(Zero, RSub(gasto_antigo, gasto_novo))

NoEco ==
    [economia_mensal |-> Zero, economia_anual |-> Zero, custo_fio_b_mensal |-> Zero,
     custo_disponibilidade_mensal |-> Zero, autoconsumo_percent |-> 0]

\* Lines 506-523 and 574-580.
renderizar_simulacao_economia(geracao_mensal, tarifa_kwh, fracao_fio_b_percent, ano_inicio_projeto, kwh_mensal_consumo, kwh_minimo, taxa_iluminacao_publica, ss) ==
    LET autoconsumo_percent == ss.autoconsumo_slider_1
        autoconsumo_frac == Percent(R(autoconsumo_percent))
        percentual == percentual_pagamento_ano1(ano_inicio_projeto)
        gasto_antigo == gasto_antigo_mensal(kwh_mensal_consumo, tarifa_kwh,
                                            taxa_iluminacao_publica)
        excedente == energia_excedente(geracao_mensal, autoconsumo_frac)
        valor_fio_b == valor_tarifa_fio_b_estimado_kwh(tarifa_kwh, fracao_fio_b_percent)
        custo_fio_b == custo_fio_b_mensal(excedente, valor_fio_b, percentual)
        custo_disp == custo_disponibilidade_mensal(kwh_minimo, tarifa_kwh)
        gasto_novo == gasto_novo_mensal(custo_disp, custo_fio_b, taxa_iluminacao_publica)
        economia == economia_mensal_total(gasto_antigo, gasto_novo)
    IN  [economia_mensal |-> economia,
         economia_anual |-> RMul(economia, R(12)),
         custo_fio_b_mensal |-> custo_fio_b,
         custo_disponibilidade_mensal |-> custo_disp,
         autoconsumo_percent |-> autoconsumo_percent]

DEGRADACAO_PAINEL_ANUAL == <<1, 200>>

\* The horizon of the projection: the call of line 727 passes anos=25, the
\* model projects MaxHorizonte years.
MaxHorizonte == 1

investimentoMut(dim, pag) == dim.valor_sistema_base

\* Line 970: valor_final_investimento=resultados_pag["valor_final"]
investimento(dim, pag) == pag.valor_final

\* Lines 726-739 with the arguments main passes in lines 969-979.
projecao_args(e, kwh_minimo, dim, eco, pag) ==
    [anos |-> MaxHorizonte,
     valor_final_investimento |-> investimento(dim, pag),
     kwh_mensal_consumo |-> e.kwh_mensal,
     tarifa_kwh_inicial |-> e.tarifa_kwh,
     geracao_mensal_inicial |-> dim.geracao_mensal,
     autoconsumo_percent |-> eco.autoconsumo_percent,
     fracao_fio_b_percent |-> e.fracao_fio_b_percent,
     ano_inicio_projeto |-> e.ano_inicio_projeto,
     inflacao_energia |-> Percent(e.inflacao_energia),
     degradacao_anual |-> DEGRADACAO_PAINEL_ANUAL,
     kwh_minimo_disponibilidade |-> kwh_minimo,
     taxa_iluminacao_publica |-> e.taxa_iluminacao_publica]

\* The default values of the widgets.
DefaultEntradas ==
    [kwh_mensal |-> R(800), tarifa_kwh |-> <<11, 10>>, tipo_conexao |-> "Monofasico",
     taxa_iluminacao_publica |-> R(30), hsp |-> R(5), perdas_percent |-> R(15),
     pot_painel_w |-> 650, valor_kwp |-> R(2200), fracao_fio_b_percent |-> R(28),
     ano_inicio_projeto |-> 2026, inflacao_energia |-> R(5), w |-> DefaultWidgets]

SessaoIdle ==
    /\ session_state = SessaoVazia
    /\ entradas = DefaultEntradas
    /\ evento = "nenhum"
    /\ antes = SessaoVazia

MainIdle ==
    /\ main_pc = "dim"
    /\ resultados_dim = NoDim
    /\ resultados_eco = NoEco

----------------------------------------------------------------------------
(* Inputs of the sizing calls.                                             *)

MaxOverride == 3

KwhValues == {R(-50), R(0), R(50), R(100), R(300), R(800)}

HspValues == {R(0), R(3), R(5)}

PerdasValues == {R(0), <<3, 20>>, <<1, 2>>, R(1), <<3, 2>>}

PotValues == {0, 585, 650, 1000}

OverrideValues == {None} \cup {<<k>> : k \in -1 .. MaxOverride}

ExampleDimArgs ==
    [kwh_mensal |-> R(800), hsp |-> R(5), perdas_frac |-> <<3, 20>>,
     pot_painel_w |-> 650, qtd_paineis_override |-> None]

\* The worked scenario: connection in 2024, 40 % self-consumption, tariff 1.10,
\* generation 828.75 kWh/month, wire fee 28 %.
ExampleFluxoArgs ==
    [anos |-> 1,
     valor_final_investimento |-> R(13585),
     kwh_mensal_consumo |-> R(800),
     tarifa_kwh_inicial |-> <<11, 10>>,
     geracao_mensal_inicial |-> <<3315, 4>>,
     autoconsumo_percent |-> 40,
     fracao_fio_b_percent |-> R(28),
     ano_inicio_projeto |-> 2024,
     inflacao_energia |-> <<1, 20>>,
     degradacao_anual |-> <<1, 200>>,
     kwh_minimo_disponibilidade |-> 30,
     taxa_iluminacao_publica |-> R(30)]

DimArgs ==
    [kwh_mensal : KwhValues, hsp : HspValues, perdas_frac : PerdasValues,
     pot_painel_w : PotValues, qtd_paineis_override : OverrideValues]

FcBlank ==
    /\ ano = 0
    /\ fluxo_acumulado_com_solar = Zero
    /\ gasto_acumulado_sem_solar = Zero
    /\ fluxo_caixa_acumulado_list = <<>>
    /\ gasto_sem_solar_acumulado_list = <<>>
    /\ loc = NoLocals
    /\ df_plot = EmptyFrame
    /\ payback_ano_num = 0
    /\ payback_ano_str = BeyondHorizon
    /\ payback_div = <<>>

FcIdle ==
    /\ fc_pc = "start"
    /\ FcBlank

\* The arguments are drawn before the call; DimCall applies the function to them.
DimInit ==
    /\ dim_called = FALSE
    /\ dim_args \in DimArgs
    /\ dim_ret = ZeroResult
    /\ fc_args = ExampleFluxoArgs
    /\ FcIdle
    /\ PagIdle
    /\ SessaoIdle
    /\ MainIdle

DimCall ==
    /\ ~dim_called
    /\ dim_called' = TRUE
    /\ dim_ret' = dimensionar_sistema(dim_args.kwh_mensal, dim_args.hsp,
                                      dim_args.perdas_frac, dim_args.pot_painel_w,
                                      dim_args.qtd_paineis_override)
    /\ UNCHANGED <<dim_args, outside_dim>>

DimNext == DimCall

SpecDim == DimInit /\ [][DimNext]_vars

----------------------------------------------------------------------------
(* Inputs of the cash-flow projection.                                     *)

MaxAnos == 3

\* Calls with a negative outlay, which calcular_fluxo_caixa accepts as it
\* validates nothing.
NegativeOutlayArgs ==
    [anos : 1 .. MaxAnos,
     valor_final_investimento : {R(-10)},
     kwh_mensal_consumo : {R(0), R(50), R(100)},
     tarifa_kwh_inicial : {R(1)},
     geracao_mensal_inicial : {R(0)},
     autoconsumo_percent : {40},
     fracao_fio_b_percent : {R(50)},
     ano_inicio_projeto : {2028},
     inflacao_energia : {Zero, <<1, 2>>},
     degradacao_anual : {Zero},
     kwh_minimo_disponibilidade : {30, 100},
     taxa_iluminacao_publica : {R(0)}]

\* Calls with a degradation above 100 % a year, which calcular_fluxo_caixa
\* accepts as it validates nothing: (1 - degradacao_anual) ** (ano - 1) is
\* then negative in every even year.
OverDegradedArgs ==
    [anos : 1 .. MaxAnos,
     valor_final_investimento : {R(420)},
     kwh_mensal_consumo : {R(100)},
     tarifa_kwh_inicial : {R(1)},
     geracao_mensal_inicial : {R(0), R(200)},
     autoconsumo_percent : {40},
     fracao_fio_b_percent : {R(50)},
     ano_inicio_projeto : {2027, 2028},
     inflacao_energia : {Zero},
     degradacao_anual : {R(2)},
     kwh_minimo_disponibilidade : {30},
     taxa_iluminacao_publica : {R(0), R(30)}]

FluxoArgs ==
    [anos : 0 .. MaxAnos,
     valor_final_investimento : {R(10), R(420), R(5000)},
     kwh_mensal_consumo : {R(0), R(50), R(100)},
     tarifa_kwh_inicial : {<<1, 2>>, R(1)},
     geracao_mensal_inicial : {R(0), R(200)},
     autoconsumo_percent : {40, 100},
     fracao_fio_b_percent : {R(50)},
     ano_inicio_projeto : {2027, 2028, 2029},
     inflacao_energia : {Zero, <<1, 2>>},
     degradacao_anual : {Zero, <<1, 2>>},
     kwh_minimo_disponibilidade : {30, 100},
     taxa_iluminacao_publica : {R(0), R(30)}]
    \cup {ExampleFluxoArgs}
    \cup NegativeOutlayArgs
    \cup OverDegradedArgs

FluxoInit ==
    /\ fc_args \in FluxoArgs
    /\ FcIdle
    /\ dim_called = FALSE
    /\ dim_args = ExampleDimArgs
    /\ dim_ret = ZeroResult
    /\ PagIdle
    /\ SessaoIdle
    /\ MainIdle

FluxoNext == FluxoEntry \/ FluxoIter \/ FluxoReturn \/ Payback

SpecFluxo == FluxoInit /\ [][FluxoNext]_vars

----------------------------------------------------------------------------
(* Claims about dimensionar_sistema.                                       *)

\* The inputs the claims call valid.
ValidDimArgs ==
    /\ dim_args.kwh_mensal[1] > 0
    /\ dim_args.hsp[1] > 0
    /\ dim_args.pot_painel_w > 0
    /\ dim_args.perdas_frac[1] < dim_args.perdas_frac[2]

\* (pot_painel_w/1000) * hsp * 30 * (1 - loss), written out as one fraction.
PerPanelEnergy ==
    Norm(dim_args.pot_painel_w * 30 * dim_args.hsp[1]
            * (dim_args.perdas_frac[2] - dim_args.perdas_frac[1]),
         1000 * dim_args.hsp[2] * dim_args.perdas_frac[2])

\* n panels cover the consumption: n * per_panel_energy >= kwh_mensal.
Covers(n) == RLe(dim_args.kwh_mensal, RMul(R(n), PerPanelEnergy))

\* C1: for valid inputs and no override the count is max(1, ceil(kwh /
\* per-panel energy)), i.e. the least n >= 1 whose generation covers the
\* consumption; capacity is count * pot_painel_w / 1000 and generation is
\* count * per-panel energy; 800 kWh, 5.0 h, 15 % loss, 650 W give 10 panels,
\* 6.5 kW and 828.75 kWh.
ThmC1 ==
    (dim_called /\ ValidDimArgs /\ dim_args.qtd_paineis_override = None) =>
        /\ ~dim_ret.raised
        /\ dim_ret.qtd >= 1
        /\ Covers(dim_ret.qtd)
        /\ (dim_ret.qtd > 1 => ~Covers(dim_ret.qtd - 1))
        /\ dim_ret.kwp_total = Norm(dim_ret.qtd * dim_args.pot_painel_w, 1000)
        /\ dim_ret.geracao_mensal = RMul(R(dim_ret.qtd), PerPanelEnergy)
        /\ (dim_args = ExampleDimArgs =>
                /\ dim_ret.qtd = 10
                /\ dim_ret.kwp_total = <<13, 2>>
                /\ dim_ret.geracao_mensal = <<3315, 4>>)

WitC1 == dim_called /\ dim_args = ExampleDimArgs /\ dim_ret.qtd = 10

PositiveOverride ==
    /\ dim_args.qtd_paineis_override # None
    /\ dim_args.qtd_paineis_override[1] > 0

\* C2 as stated: any positive override k is returned as the panel count,
\* whatever the other arguments are.
CexC2 ==
    (dim_called /\ PositiveOverride) =>
        dim_ret.qtd = dim_args.qtd_paineis_override[1]

\* C2 amended: for valid inputs a positive override k is returned as the
\* panel count, smaller or larger than the recommendation, and capacity and
\* generation are computed from k.
ThmC2 ==
    (dim_called /\ ValidDimArgs /\ PositiveOverride) =>
        LET k == dim_args.qtd_paineis_override[1]
        IN  /\ dim_ret.qtd = k
            /\ dim_ret.kwp_total = Norm(k * dim_args.pot_painel_w, 1000)
            /\ dim_ret.geracao_mensal = RMul(R(k), PerPanelEnergy)

\* An override below the recommendation (3 panels where 10 are needed).
WitC2 ==
    /\ dim_called
    /\ dim_args = [ExampleDimArgs EXCEPT !.qtd_paineis_override = <<3>>]
    /\ dim_ret.qtd = 3
    /\ ~Covers(3)

\* C3: a non-positive consumption, peak-sun-hours or panel wattage, or a loss
\* fraction >= 1, gives the all-zero result without an error, whatever the
\* override.
ThmC3 ==
    (dim_called /\ ~ValidDimArgs) =>
        /\ dim_ret.qtd = 0
        /\ dim_ret.kwp_total = Zero
        /\ dim_ret.geracao_mensal = Zero
        /\ ~dim_ret.raised

\* A loss fraction of 1 with otherwise valid inputs and a positive override.
WitC3 ==
    /\ dim_called
    /\ dim_args.kwh_mensal[1] > 0 /\ dim_args.hsp[1] > 0 /\ dim_args.pot_painel_w > 0
    /\ dim_args.perdas_frac = One
    /\ PositiveOverride
    /\ dim_ret.qtd = 0

----------------------------------------------------------------------------
(* Inputs of the payment plans.                                            *)

MaxParcelas == 3

DimIdle ==
    /\ dim_called = FALSE
    /\ dim_args = ExampleDimArgs
    /\ dim_ret = ZeroResult

\* Widget values: rates of 0, 10 and 50 % a month over 1..MaxParcelas
\* installments, and 2 % a month over 1 or 2 installments.
PagWidgets ==
    [modalidade : {A_VISTA, FINANCIAMENTO, CARTAO},
     meses : 1 .. MaxParcelas,
     carencia : {0, 1, 3},
     taxa_mes : {R(0), R(10), R(50)},
     parcelas_cartao : 1 .. MaxParcelas,
     taxa_cartao : {R(0), R(10), R(50)}]
    \cup
    [modalidade : {FINANCIAMENTO, CARTAO},
     meses : {1, 2},
     carencia : {0, 2},
     taxa_mes : {R(2)},
     parcelas_cartao : {1, 2},
     taxa_cartao : {R(2)}]

PagArgs == [valor_sistema_base : {R(1000), R(14300)}, w : PagWidgets]

PagInit ==
    /\ pag_called = FALSE
    /\ pag_args \in PagArgs
    /\ pag_ret = NoPag
    /\ DimIdle
    /\ fc_args = ExampleFluxoArgs
    /\ FcIdle
    /\ SessaoIdle
    /\ MainIdle

PagCall ==
    /\ ~pag_called
    /\ pag_called' = TRUE
    /\ pag_ret' = renderizar_pagamento(pag_args.valor_sistema_base, pag_args.w)
    /\ UNCHANGED <<pag_args, outside_pag>>

PagNext == PagCall

SpecPag == PagInit /\ [][PagNext]_vars

----------------------------------------------------------------------------
(* The panel count across runs of the script.                              *)

MaxPaineis == 6

\* The widget values of the runs.  A consumption of 0 is below the minimum of
\* the consumption widget (50), renderizar_dimensionamento takes it as any
\* other value: it is the input for which sizing returns the zero result.
SessaoEntradas ==
    [kwh_mensal : {R(0), R(50), R(100), R(300)},
     tarifa_kwh : {R(1)},
     tipo_conexao : {"Monofasico"},
     taxa_iluminacao_publica : {R(30)},
     hsp : {R(5)},
     perdas_percent : {R(20)},
     pot_painel_w : {585, 700},
     valor_kwp : {R(2000)},
     fracao_fio_b_percent : {R(28)},
     ano_inicio_projeto : {2026},
     inflacao_energia : {R(5)},
     w : {DefaultWidgets}]

SessaoInit ==
    /\ session_state = SessaoVazia
    /\ entradas \in SessaoEntradas
    /\ evento = "nenhum"
    /\ antes = SessaoVazia
    /\ MainIdle
    /\ DimIdle
    /\ fc_args = ExampleFluxoArgs
    /\ FcIdle
    /\ PagIdle

\* An event and the run of the script it starts: the callback has left the
\* session state ss, the widgets hold e.
Executar(nome, ss, e) ==
    LET r == executar(e, ss)
    IN  /\ evento' = nome
        /\ antes' = session_state
        /\ entradas' = e
        /\ session_state' = r.session_state
        /\ resultados_dim' = r.ret
        /\ UNCHANGED outside_sessao

\* The first run of a session.
PrimeiraExecucao ==
    /\ session_state.qtd_paineis = None
    /\ Executar("primeira", session_state, entradas)

\* The user changes a widget value.
AlterarEntradas ==
    /\ session_state.qtd_paineis # None
    /\ \E e \in SessaoEntradas \ {entradas} : Executar("entradas", session_state, e)

ClicarDiminuir ==
    /\ session_state.qtd_paineis # None
    /\ Executar("diminuir", diminuir_paineis(session_state), entradas)

ClicarAumentar ==
    /\ session_state.qtd_paineis # None
    /\ session_state.qtd_paineis[1] < MaxPaineis
    /\ Executar("aumentar", aumentar_paineis(session_state), entradas)

ClicarReset ==
    /\ session_state.qtd_paineis # None
    /\ Executar("reset", resetar_paineis(session_state), entradas)

SessaoNext ==
    \/ PrimeiraExecucao
    \/ AlterarEntradas
    \/ ClicarDiminuir
    \/ ClicarAumentar
    \/ ClicarReset

SpecSessao == SessaoInit /\ [][SessaoNext]_vars

----------------------------------------------------------------------------
(* One run of main, step by step.                                          *)

\* Widget values within the ranges of the widgets, but for the number of
\* financing installments (the widget offers 36, 48, 60 and 72).
MainEntradas ==
    [kwh_mensal : {R(50), R(100), R(300)},
     tarifa_kwh : {<<1, 2>>, R(1)},
     tipo_conexao : {"Monofasico", "Trifasico"},
     taxa_iluminacao_publica : {R(30)},
     hsp : {R(5)},
     perdas_percent : {R(20)},
     pot_painel_w : {650, 700},
     valor_kwp : {R(2000)},
     fracao_fio_b_percent : {R(50)},
     ano_inicio_projeto : {2026, 2028, 2029},
     inflacao_energia : {R(5)},
     w : [modalidade : {A_VISTA, FINANCIAMENTO, CARTAO},
          meses : {1},
          carencia : {0, 2},
          taxa_mes : {R(2)},
          parcelas_cartao : {1},
          taxa_cartao : {R(2)}]]

\* The session states a run can start from: a new session, a count the user
\* has set, a count left by an earlier run.
MainSessoes ==
    [qtd_paineis : {None, <<2>>}, manual_override : {FALSE},
     autoconsumo_slider_1 : {40, 100}]
    \cup
    [qtd_paineis : {<<3>>}, manual_override : {TRUE}, autoconsumo_slider_1 : {40, 100}]

MainInit ==
    /\ session_state \in MainSessoes
    /\ entradas \in MainEntradas
    /\ evento = "nenhum"
    /\ antes = session_state
    /\ MainIdle
    /\ DimIdle
    /\ fc_args = ExampleFluxoArgs
    /\ fc_pc = "idle"
    /\ FcBlank
    /\ PagIdle

\* Lines 951-957.
MainDim ==
    /\ main_pc = "dim"
    /\ main_pc' = "eco"
    /\ LET r == executar(entradas, session_state)
       IN  /\ session_state' = r.session_state
           /\ resultados_dim' = r.ret
    /\ UNCHANGED <<entradas, evento, antes, resultados_eco, dim_vars, fc_vars, pag_vars>>

\* Lines 959-969.
MainEco ==
    /\ main_pc = "eco"
    /\ main_pc' = "pag"
    /\ resultados_eco' =
           renderizar_simulacao_economia(
               resultados_dim.geracao_mensal, entradas.tarifa_kwh,
               entradas.fracao_fio_b_percent, entradas.ano_inicio_projeto,
               entradas.kwh_mensal, kwh_minimo_disponibilidade(entradas.tipo_conexao),
               entradas.taxa_iluminacao_publica, session_state)
    /\ UNCHANGED <<sessao_vars, resultados_dim, dim_vars, fc_vars, pag_vars>>

\* Lines 971-975.
MainPag ==
    /\ main_pc = "pag"
    /\ main_pc' = "proj"
    /\ pag_called' = TRUE
    /\ pag_args' = [valor_sistema_base |-> resultados_dim.valor_sistema_base,
                    w |-> entradas.w]
    /\ pag_ret' = renderizar_pagamento(resultados_dim.valor_sistema_base, entradas.w)
    /\ UNCHANGED <<sessao_vars, resultados_dim, resultados_eco, dim_vars, fc_vars>>

\* Lines 977-988 and 726-739: the call of calcular_fluxo_caixa, which
\* FluxoEntry, FluxoIter, FluxoReturn and Payback then carry out.
MainProj ==
    /\ main_pc = "proj"
    /\ fc_pc = "idle"
    /\ main_pc' = "fim"
    /\ fc_pc' = "start"
    /\ fc_args' = projecao_args(entradas, kwh_minimo_disponibilidade(entradas.tipo_conexao),
                                resultados_dim, resultados_eco, pag_ret)
    /\ UNCHANGED <<ano, fluxo_acumulado_com_solar, gasto_acumulado_sem_solar,
                   fluxo_caixa_acumulado_list, gasto_sem_solar_acumulado_list, loc,
                   df_plot, payback_ano_num, payback_ano_str, payback_div,
                   sessao_vars, resultados_dim, resultados_eco, dim_vars, pag_vars>>

MainNext ==
    \/ MainDim
    \/ MainEco
    \/ MainPag
    \/ MainProj
    \/ FluxoEntry
    \/ FluxoIter
    \/ FluxoReturn
    \/ Payback

SpecMain == MainInit /\ [][MainNext]_vars

----------------------------------------------------------------------------
(* Claims about calcular_fluxo_caixa.  The per-year quantities are written *)
(* here in closed form from the arguments, apart from the loop.            *)

\* r^k for a rational r # 0.
ClaimPow(r, k) == IF k = 0 THEN One ELSE Norm(r[1] ^ k, r[2] ^ k)

Tariff(y) ==
    RMul(fc_args.tarifa_kwh_inicial, ClaimPow(RAdd(One, fc_args.inflacao_energia), y - 1))

Fee(y) ==
    RMul(fc_args.taxa_iluminacao_publica,
         ClaimPow(RAdd(One, fc_args.inflacao_energia), y - 1))

Generation(y) ==
    RMul(fc_args.geracao_mensal_inicial,
         ClaimPow(RSub(One, fc_args.degradacao_anual), y - 1))

\* The payable percentage of calendar year ano_inicio_projeto + y - 1.
Payable(y) ==
    LET c == fc_args.ano_inicio_projeto + y - 1
    IN  IF c \in DOMAIN FIO_B_PERCENT_MAP THEN FIO_B_PERCENT_MAP[c] ELSE 100

Exported(y) == RMul(Generation(y), Norm(100 - fc_args.autoconsumo_percent, 100))

FeeCost(y) ==
    RMul(R(12),
         RMul(Exported(y),
              RMul(RDiv(RMul(Tariff(y), fc_args.fracao_fio_b_percent), R(100)),
                   Norm(Payable(y), 100))))

AvailabilityCost(y) == RMul(R(12 * fc_args.kwh_minimo_disponibilidade), Tariff(y))

Baseline(y) ==
    RAdd(RMul(R(12), RMul(fc_args.kwh_mensal_consumo, Tariff(y))), RMul(R(12), Fee(y)))

NewSpend(y) == RAdd(FeeCost(y), RAdd(AvailabilityCost(y), RMul(R(12), Fee(y))))

Saving(y) ==
    IF RLt(NewSpend(y), Baseline(y)) THEN RSub(Baseline(y), NewSpend(y)) ELSE Zero

LastExplicitYear == CHOOSE c \in DOMAIN FIO_B_PERCENT_MAP :
                        \A d \in DOMAIN FIO_B_PERCENT_MAP : d <= c

Iterated == fc_pc # "start" /\ ano >= 1

Returned == fc_pc \in {"returned", "done"}

\* C4 as stated: with ano_inicio_projeto at or beyond the last explicit year of
\* FIO_B_PERCENT_MAP the payable percentage is 100 in every projected year.
CexC4 ==
    (Iterated /\ fc_args.ano_inicio_projeto >= LastExplicitYear) =>
        loc.percent_fio_b_a_pagar = R(100)

\* C4 amended: with ano_inicio_projeto strictly beyond the last explicit year
\* of FIO_B_PERCENT_MAP the payable percentage is 100 in every projected year.
ThmC4 ==
    (Iterated /\ fc_args.ano_inicio_projeto > LastExplicitYear) =>
        loc.percent_fio_b_a_pagar = R(100)

WitC4 ==
    /\ Iterated
    /\ ano >= 2
    /\ fc_args.ano_inicio_projeto = LastExplicitYear + 1
    /\ loc.percent_fio_b_a_pagar = R(100)

\* C5: the frame has exactly anos rows, years 1..anos in order; the with-solar
\* total is -valor_final_investimento plus the savings so far, each row the
\* previous one plus that year's saving; the without-solar total starts at 0
\* and each row is the previous one plus that year's baseline spend.
ThmC5 ==
    Returned =>
        /\ Len(df_plot.Ano) = fc_args.anos
        /\ Len(df_plot.fluxo) = fc_args.anos
        /\ Len(df_plot.gasto) = fc_args.anos
        /\ \A i \in 1 .. fc_args.anos :
            /\ df_plot.Ano[i] = i
            /\ df_plot.fluxo[i] =
                   RAdd(IF i = 1 THEN RNeg(fc_args.valor_final_investimento)
                        ELSE df_plot.fluxo[i - 1],
                        Saving(i))
            /\ df_plot.gasto[i] =
                   RAdd(IF i = 1 THEN Zero ELSE df_plot.gasto[i - 1], Baseline(i))

WitC5 ==
    /\ Returned
    /\ fc_args.anos >= 3
    /\ fc_args.valor_final_investimento = R(420)
    /\ RLt(Zero, Saving(1))
    /\ RLt(df_plot.fluxo[1], df_plot.fluxo[2])
    /\ RLt(df_plot.fluxo[2], df_plot.fluxo[3])

\* The formulas of C6 for the year the loop has just processed.
YearFormulas ==
    /\ loc.tarifa_kwh_inflacionada = Tariff(ano)
    /\ loc.taxa_iluminacao_inflacionada = Fee(ano)
    /\ loc.geracao_mensal_degradada = Generation(ano)
    /\ loc.custo_fio_b_anual = FeeCost(ano)
    /\ loc.custo_disponibilidade_anual = AvailabilityCost(ano)
    /\ loc.gasto_novo_anual = NewSpend(ano)
    /\ loc.economia_liquida_anual = Saving(ano)

\* The monthly transitional fee, in cents, rounded to the nearest cent.
MonthlyFeeCents == Round(RMul(R(100), RDiv(loc.custo_fio_b_anual, R(12))))

\* C6 as stated: the yearly formulas hold, and the worked scenario exports
\* 497.25 kWh/month and pays a year-1 transitional fee of 45.93 per month.
CexC6 ==
    Iterated =>
        /\ YearFormulas
        /\ (fc_args = ExampleFluxoArgs =>
                /\ loc.energia_excedente = <<1989, 4>>
                /\ MonthlyFeeCents = 4593)

\* C6 amended: the yearly formulas hold, and the worked scenario exports
\* 497.25 kWh/month and pays a year-1 transitional fee of 45.9459, about 45.95,
\* per month.
ThmC6 ==
    Iterated =>
        /\ YearFormulas
        /\ (fc_args = ExampleFluxoArgs =>
                /\ loc.energia_excedente = <<1989, 4>>
                /\ RDiv(loc.custo_fio_b_anual, R(12)) = <<459459, 10000>>
                /\ MonthlyFeeCents = 4595)

WitC6 ==
    /\ Iterated
    /\ ano >= 2
    /\ fc_args.inflacao_energia # Zero
    /\ fc_args.degradacao_anual # Zero
    /\ RLt(Zero, loc.custo_fio_b_anual)
    /\ RLt(Zero, loc.economia_liquida_anual)

StrictlyIncreasing(seq) == \A i \in 1 .. Len(seq) - 1 : RLt(seq[i], seq[i + 1])

NonDecreasing(seq) == \A i \in 1 .. Len(seq) - 1 : RLe(seq[i], seq[i + 1])

\* C7 as stated: for any positive initial tariff the accumulated without-solar
\* spend is strictly increasing from each year to the next.
CexC7 ==
    (Returned /\ fc_args.tarifa_kwh_inicial[1] > 0) =>
        StrictlyIncreasing(df_plot.gasto)

\* C7 amended: for any positive initial tariff and positive monthly
\* consumption, with a non-negative fee and inflation above -100 %, the
\* accumulated without-solar spend is strictly increasing from each year to
\* the next.
ThmC7 ==
    (/\ Returned
     /\ fc_args.tarifa_kwh_inicial[1] > 0
     /\ fc_args.kwh_mensal_consumo[1] > 0
     /\ fc_args.taxa_iluminacao_publica[1] >= 0
     /\ RLt(R(-1), fc_args.inflacao_energia)) =>
        StrictlyIncreasing(df_plot.gasto)

WitC7 ==
    /\ Returned
    /\ fc_args.anos >= 3
    /\ fc_args.tarifa_kwh_inicial[1] > 0
    /\ fc_args.kwh_mensal_consumo[1] > 0
    /\ fc_args.taxa_iluminacao_publica = Zero
    /\ RLt(df_plot.gasto[2], df_plot.gasto[3])

\* C8: every year's net saving is >= 0, so the accumulated with-solar cash
\* flow never decreases and is never below -valor_final_investimento, also
\* when the new annual spend exceeds the baseline spend.
ThmC8 ==
    /\ Iterated => RLe(Zero, loc.economia_liquida_anual)
    /\ fc_pc # "start" =>
        /\ NonDecreasing(fluxo_caixa_acumulado_list)
        /\ \A i \in 1 .. Len(fluxo_caixa_acumulado_list) :
               RLe(RNeg(fc_args.valor_final_investimento), fluxo_caixa_acumulado_list[i])
    /\ Returned => df_plot.fluxo = fluxo_caixa_acumulado_list

\* A year whose new spend exceeds the baseline spend.
WitC8 ==
    /\ Iterated
    /\ RLt(loc.gasto_anual_sem_solar, loc.gasto_novo_anual)
    /\ loc.economia_liquida_anual = Zero
    /\ fluxo_acumulado_com_solar = RNeg(fc_args.valor_final_investimento)

----------------------------------------------------------------------------
(* Claims about the payback derivation.                                    *)

PositiveYears == {i \in 1 .. Len(df_plot.fluxo) : RLt(Zero, df_plot.fluxo[i])}

\* C9: the payback year is the first year whose accumulated with-solar cash
\* flow is > 0, all earlier years being <= 0; with no such year in the horizon
\* the payback is reported as "+ 25 anos".
ThmC9 ==
    fc_pc = "done" =>
        IF PositiveYears = {}
        THEN payback_ano_str = BeyondHorizon
        ELSE /\ payback_ano_str.kind # BeyondHorizon.kind
             /\ payback_ano_num \in PositiveYears
             /\ \A j \in 1 .. payback_ano_num - 1 : RLe(df_plot.fluxo[j], Zero)
             /\ payback_ano_str.kind = "Ano" => payback_ano_str.n = payback_ano_num

\* The accumulation reaches exactly 0 before it turns positive.
WitC9 ==
    /\ fc_pc = "done"
    /\ payback_ano_num >= 2
    /\ df_plot.fluxo[payback_ano_num - 1] = Zero
    /\ RLt(df_plot.fluxo[1], Zero)

\* |accumulation before year y| / gain of year y * 12, y the payback year.
FractionMonths(y) ==
    RMul(RDiv(IF y = 1 THEN RAbs(fc_args.valor_final_investimento)
              ELSE RAbs(df_plot.fluxo[y - 1]),
              Saving(y)),
         R(12))

HasPaybackGain ==
    /\ fc_pc = "done"
    /\ PositiveYears # {}
    /\ RLt(Zero, Saving(payback_ano_num))

\* C10 as stated: with a positive gain in payback year y the months reported
\* are (y-1)*12 + |accumulation at the end of year y-1| / gain * 12 rounded to a
\* whole number; for y = 1 that is outlay / gain * 12.
CexC10 ==
    HasPaybackGain =>
        payback_ano_str =
            Meses((payback_ano_num - 1) * 12 + Round(FractionMonths(payback_ano_num)))

\* C10 amended: as stated for y >= 2; for y = 1 the months reported are
\* outlay / gain * 12 rounded to a whole number, but at least 1.
ThmC10 ==
    HasPaybackGain =>
        payback_ano_str =
            Meses(IF payback_ano_num = 1
                  THEN IntMax(1, Round(FractionMonths(1)))
                  ELSE (payback_ano_num - 1) * 12 + Round(FractionMonths(payback_ano_num)))

\* A payback inside year 2 or later, after a year that ended below zero.
WitC10 ==
    /\ HasPaybackGain
    /\ payback_ano_num >= 2
    /\ RLt(df_plot.fluxo[payback_ano_num - 1], Zero)
    /\ payback_ano_str.n > (payback_ano_num - 1) * 12
    /\ payback_ano_str.n < payback_ano_num * 12

\* The gain of the payback year, from the returned series.
CrossingGain ==
    RSub(df_plot.fluxo[payback_ano_num],
         IF payback_ano_num = 1 THEN RNeg(fc_args.valor_final_investimento)
         ELSE df_plot.fluxo[payback_ano_num - 1])

\* C11: when the payback year's net gain is <= 0 the label is "Ano <y>" and no
\* interpolation division is made; no division of the payback computation has
\* a zero or negative divisor.
ThmC11 ==
    fc_pc = "done" =>
        /\ (PositiveYears # {} /\ RLe(CrossingGain, Zero)) =>
               /\ payback_ano_str = AnoLabel(payback_ano_num)
               /\ payback_div = <<>>
        /\ \A k \in 1 .. Len(payback_div) : RLt(Zero, payback_div[k])

\* A first year that ends above zero without any gain (a negative outlay and
\* no saving).
WitC11 ==
    /\ fc_pc = "done"
    /\ PositiveYears # {}
    /\ payback_ano_num = 1
    /\ CrossingGain = Zero
    /\ payback_ano_str = AnoLabel(1)

----------------------------------------------------------------------------
(* Claims about renderizar_pagamento.                                      *)

Amortized == pag_called /\ pag_args.w.modalidade \in {FINANCIAMENTO, CARTAO}

\* The effective principal, the rate per period and the number of periods of
\* the selected amortized modality.
Principal ==
    IF pag_args.w.modalidade = FINANCIAMENTO
    THEN RAdd(pag_args.valor_sistema_base, R(1350 * pag_args.w.carencia))
    ELSE RAdd(pag_args.valor_sistema_base, R(2286))

Rate ==
    IF pag_args.w.modalidade = FINANCIAMENTO
    THEN RDiv(pag_args.w.taxa_mes, R(100))
    ELSE RDiv(pag_args.w.taxa_cartao, R(100))

Periods ==
    IF pag_args.w.modalidade = FINANCIAMENTO
    THEN pag_args.w.meses
    ELSE pag_args.w.parcelas_cartao

\* principal * i / (1 - (1+i)^(-n)), as principal * i * (1+i)^n / ((1+i)^n - 1).
Installment ==
    LET g == ClaimPow(RAdd(One, Rate), Periods)
    IN  RDiv(RMul(RMul(Principal, Rate), g), RSub(g, One))

\* C12: with rate i > 0 and n periods the installment of financing and of card
\* is principal * i / (1 - (1+i)^(-n)) and the total paid is installment * n,
\* the principal being base + grace months * 1350 for financing and
\* base + 2286 for card.
ThmC12 ==
    (Amortized /\ RLt(Zero, Rate)) =>
        /\ ~pag_ret.raised
        /\ pag_ret.parcela_mensal = <<Installment>>
        /\ pag_ret.valor_final = RMul(R(Periods), Installment)

WitC12 ==
    /\ Amortized
    /\ pag_args.w.modalidade = FINANCIAMENTO
    /\ pag_args.w.carencia > 0
    /\ pag_args.w.taxa_mes = R(2)
    /\ pag_args.w.meses = 2
    /\ pag_ret.parcela_mensal = <<Installment>>

\* C13: with rate i = 0 the installment is principal / n for financing and for
\* card, without a division by zero, and the total paid is the principal.
ThmC13 ==
    (Amortized /\ Rate = Zero) =>
        /\ ~pag_ret.raised
        /\ pag_ret.parcela_mensal = <<RDiv(Principal, R(Periods))>>
        /\ pag_ret.valor_final = Principal

WitC13 ==
    /\ Amortized
    /\ Rate = Zero
    /\ pag_args.w.modalidade = CARTAO
    /\ Periods = 3
    /\ pag_ret.valor_final = RAdd(pag_args.valor_sistema_base, R(2286))

\* The balance left after k periods: each period adds the interest and takes
\* one installment off.
RECURSIVE Balance(_, _)
Balance(installment, k) ==
    IF k = 0 THEN Principal
    ELSE RSub(RMul(Balance(installment, k - 1), RAdd(One, Rate)), installment)

\* The interest charged over the first k periods.
RECURSIVE Interest(_, _)
Interest(installment, k) ==
    IF k = 0 THEN Zero
    ELSE RAdd(Interest(installment, k - 1), RMul(Balance(installment, k - 1), Rate))

\* C14: for i > 0, paying the installment for n periods brings the balance to
\* zero: n * installment less the interest charged is the principal.
ThmC14 ==
    (Amortized /\ RLt(Zero, Rate)) =>
        /\ pag_ret.parcela_mensal # None
        /\ Balance(pag_ret.parcela_mensal[1], Periods) = Zero
        /\ RSub(pag_ret.valor_final, Interest(pag_ret.parcela_mensal[1], Periods))
               = Principal

WitC14 ==
    /\ Amortized
    /\ RLt(Zero, Rate)
    /\ Periods = 3
    /\ pag_ret.parcela_mensal # None
    /\ RLt(Zero, Balance(pag_ret.parcela_mensal[1], 2))
    /\ Balance(pag_ret.parcela_mensal[1], 3) = Zero

\* C15: the cash modality pays base * (1 - 0.05) and has no installment; the
\* installment is non-null exactly for financing and card.
ThmC15 ==
    pag_called =>
        /\ pag_args.w.modalidade = A_VISTA =>
               /\ pag_ret.valor_final =
                      RSub(pag_args.valor_sistema_base,
                           RDiv(RMul(pag_args.valor_sistema_base, R(5)), R(100)))
               /\ pag_ret.parcela_mensal = None
        /\ pag_ret.parcela_mensal # None
               <=> pag_args.w.modalidade \in {FINANCIAMENTO, CARTAO}

WitC15 ==
    /\ pag_called
    /\ pag_args.w.modalidade = A_VISTA
    /\ pag_args.valor_sistema_base = R(14300)
    /\ pag_ret.valor_final = R(13585)
    /\ pag_ret.parcela_mensal = None

----------------------------------------------------------------------------
(* Claims about the data flow of main.                                     *)

\* The installments of the selected modality.
MainPeriods ==
    IF entradas.w.modalidade = FINANCIAMENTO
    THEN entradas.w.meses
    ELSE entradas.w.parcelas_cartao

\* What the selected plan charges in the end.
PlanTotal ==
    IF entradas.w.modalidade = A_VISTA
    THEN RMul(<<95, 100>>, resultados_dim.valor_sistema_base)
    ELSE RMul(R(MainPeriods), pag_ret.parcela_mensal[1])

\* C17: in every run of main the base system cost is kwp_total * valor_kwp of
\* the sizing result, the initial outlay handed to calcular_fluxo_caixa is the
\* valor_final of the selected payment plan (0.95 * base for cash,
\* installment * n for financing and card), and the first accumulated cash-flow
\* value is -valor_final plus the net saving of year 1.
ThmC17 ==
    /\ main_pc # "dim" =>
           /\ resultados_dim.kwp_total =
                  Norm(resultados_dim.qtd_final * entradas.pot_painel_w, 1000)
           /\ resultados_dim.valor_sistema_base =
                  RMul(resultados_dim.kwp_total, entradas.valor_kwp)
    /\ main_pc \in {"proj", "fim"} =>
           /\ pag_args.valor_sistema_base = resultados_dim.valor_sistema_base
           /\ pag_ret.valor_final = PlanTotal
    /\ main_pc = "fim" =>
           /\ fc_args.valor_final_investimento = pag_ret.valor_final
           /\ fc_args.geracao_mensal_inicial = resultados_dim.geracao_mensal
           /\ Len(fluxo_caixa_acumulado_list) >= 1 =>
                  fluxo_caixa_acumulado_list[1] =
                      RAdd(RNeg(pag_ret.valor_final), Saving(1))

WitC17 ==
    /\ main_pc = "fim"
    /\ fc_pc = "done"
    /\ entradas.w.modalidade = FINANCIAMENTO
    /\ entradas.w.carencia = 2
    /\ RLt(resultados_dim.valor_sistema_base, pag_ret.valor_final)
    /\ RLt(Zero, Saving(1))
    /\ df_plot.fluxo[1] = RAdd(RNeg(pag_ret.valor_final), Saving(1))

\* C20: economia_anual of renderizar_simulacao_economia is 12 * economia_mensal
\* and equals the net saving of year 1 of calcular_fluxo_caixa for the same
\* inputs, so the first accumulated cash-flow value is
\* -valor_final_investimento + economia_anual, also when the saving is floored
\* at zero.
ThmC20 ==
    (main_pc = "fim" /\ Iterated) =>
        /\ resultados_eco.economia_anual = RMul(R(12), resultados_eco.economia_mensal)
        /\ ano = 1 => loc.economia_liquida_anual = resultados_eco.economia_anual
        /\ fluxo_caixa_acumulado_list[1] =
               RAdd(RNeg(fc_args.valor_final_investimento), resultados_eco.economia_anual)

WitC20 ==
    /\ main_pc = "fim"
    /\ Iterated
    /\ entradas.tipo_conexao = "Trifasico"
    /\ entradas.kwh_mensal = R(50)
    /\ resultados_eco.economia_anual = Zero
    /\ fluxo_caixa_acumulado_list[1] = RNeg(pag_ret.valor_final)

\* A run where the saving of year 1 is positive and the payable share of the
\* wire fee is below 100 %.
PositiveSavingRun ==
    /\ main_pc = "fim"
    /\ Iterated
    /\ entradas.ano_inicio_projeto = 2026
    /\ session_state.autoconsumo_slider_1 = 40
    /\ RLt(Zero, resultados_eco.economia_anual)

----------------------------------------------------------------------------
(* Claims about the panel count of st.session_state.                       *)

\* (pot_painel_w / 1000) * hsp * 30 * (1 - perdas_percent / 100) of the widgets.
EnergyPerPanel ==
    RMul(RMul(RMul(Norm(entradas.pot_painel_w, 1000), entradas.hsp), R(30)),
         RSub(One, RDiv(entradas.perdas_percent, R(100))))

Enough(n) == RLe(entradas.kwh_mensal, RMul(R(n), EnergyPerPanel))

\* The count recommended for the widget values: the least count >= 1 that
\* covers the consumption, 1 when there is none to cover.
Recommended ==
    CHOOSE n \in 1 .. 50 : Enough(n) /\ (n = 1 \/ ~Enough(n - 1))

HasCount == session_state.qtd_paineis # None

\* C18: after any sequence of decrement, increment and Reset clicks and runs on
\* changed inputs, qtd_paineis is an integer >= 1, also when sizing yields the
\* zero result; a decrement click at count 1 leaves qtd_paineis and
\* manual_override as they were.
ThmC18 ==
    /\ HasCount =>
           /\ session_state.qtd_paineis[1] \in Nat
           /\ session_state.qtd_paineis[1] >= 1
    /\ (evento = "diminuir" /\ antes.qtd_paineis = <<1>>) =>
           /\ session_state.qtd_paineis = antes.qtd_paineis
           /\ session_state.manual_override = antes.manual_override

WitC18 ==
    /\ evento = "diminuir"
    /\ antes.qtd_paineis = <<1>>
    /\ antes.manual_override
    /\ entradas.kwh_mensal = Zero
    /\ resultados_dim.qtd_final = 0
    /\ session_state.qtd_paineis = <<1>>

\* C19: while manual_override is false, after every run qtd_paineis is the
\* count recommended for the current inputs; an increment, or a decrement from
\* a count > 1, sets manual_override, after which runs with changed inputs
\* leave qtd_paineis alone; a Reset click clears manual_override and the run
\* that follows puts qtd_paineis back to the recommendation.
ThmC19 ==
    /\ (HasCount /\ ~session_state.manual_override) =>
           session_state.qtd_paineis = <<Recommended>>
    /\ evento = "aumentar" =>
           /\ session_state.manual_override
           /\ session_state.qtd_paineis = <<antes.qtd_paineis[1] + 1>>
    /\ (evento = "diminuir" /\ antes.qtd_paineis # <<1>>) =>
           /\ session_state.manual_override
           /\ session_state.qtd_paineis = <<antes.qtd_paineis[1] - 1>>
    /\ (evento = "entradas" /\ antes.manual_override) =>
           /\ session_state.manual_override
           /\ session_state.qtd_paineis = antes.qtd_paineis
    /\ evento = "reset" =>
           /\ ~session_state.manual_override
           /\ session_state.qtd_paineis = <<Recommended>>

WitC19 ==
    /\ evento = "reset"
    /\ antes.manual_override
    /\ antes.qtd_paineis # <<Recommended>>
    /\ session_state.qtd_paineis = <<Recommended>>
    /\ Recommended > 1

\* A run on changed inputs that kept a count the user had set.
OverrideKept ==
    /\ evento = "entradas"
    /\ antes.manual_override
    /\ session_state.qtd_paineis # <<Recommended>>

----------------------------------------------------------------------------
(* Claims about how generation enters the saving of calcular_fluxo_caixa.  *)

\* The generations the run is compared with.
OtherGenerations == {R(0), R(100), R(200), R(400)}

\* The net saving of the current year of a call that differs from this one
\* in geracao_mensal_inicial only.
SavingWithGeneration(g) ==
    Locals([fc_args EXCEPT !.geracao_mensal_inicial = g], ano).economia_liquida_anual

\* Tariff, wire-fee percentage and payable percentage are not negative and
\* self-consumption is 100 % at most.
SignsAsClaimed ==
    /\ RLe(Zero, Tariff(ano))
    /\ RLe(Zero, fc_args.fracao_fio_b_percent)
    /\ Payable(ano) >= 0
    /\ fc_args.autoconsumo_percent <= 100

\* More generation never gives a higher saving in the current year.
NonIncreasingInGeneration ==
    \A g \in OtherGenerations :
        /\ RLe(fc_args.geracao_mensal_inicial, g) =>
               RLe(SavingWithGeneration(g), loc.economia_liquida_anual)
        /\ RLe(g, fc_args.geracao_mensal_inicial) =>
               RLe(loc.economia_liquida_anual, SavingWithGeneration(g))

\* max(0, 12 * tariff_y * (kwh_mensal_consumo - kwh_minimo_disponibilidade))
SavingWithoutExport ==
    RMax(Zero,
         RMul(RMul(R(12), Tariff(ano)),
              RSub(fc_args.kwh_mensal_consumo, R(fc_args.kwh_minimo_disponibilidade))))

NothingExported ==
    \/ fc_args.geracao_mensal_inicial = Zero
    \/ fc_args.autoconsumo_percent = 100

\* C21 as stated: with non-negative tariff, wire-fee percentage and payable
\* percentage and self-consumption <= 100 %, every year's net saving is
\* non-increasing in geracao_mensal_inicial, and with zero generation or 100 %
\* self-consumption it is max(0, 12 * tariff_y * (consumption - minimum)).
CexC21 ==
    (Iterated /\ SignsAsClaimed) =>
        /\ NonIncreasingInGeneration
        /\ NothingExported => loc.economia_liquida_anual = SavingWithoutExport

\* C21 amended: the saving is non-increasing in geracao_mensal_inicial when,
\* besides the signs above, degradacao_anual is 1 at most, so that the degraded
\* generation keeps the sign of the initial one; with zero generation or 100 %
\* self-consumption it is max(0, 12 * tariff_y * (consumption - minimum)),
\* however far generation falls short of consumption.
ThmC21 ==
    (Iterated /\ SignsAsClaimed) =>
        /\ RLe(fc_args.degradacao_anual, One) => NonIncreasingInGeneration
        /\ NothingExported => loc.economia_liquida_anual = SavingWithoutExport

WitC21 ==
    /\ Iterated
    /\ SignsAsClaimed
    /\ ano = 2
    /\ fc_args.degradacao_anual = <<1, 2>>
    /\ fc_args.geracao_mensal_inicial = R(200)
    /\ fc_args.autoconsumo_percent = 40
    /\ RLt(Zero, loc.economia_liquida_anual)
    /\ RLt(loc.economia_liquida_anual, SavingWithGeneration(Zero))
    /\ SavingWithGeneration(Zero) = SavingWithoutExport

\* A year of zero generation, short of the consumption, with the full saving.
ShortOfConsumption ==
    /\ Iterated
    /\ fc_args.geracao_mensal_inicial = Zero
    /\ fc_args.kwh_mensal_consumo = R(100)
    /\ fc_args.kwh_minimo_disponibilidade = 30
    /\ loc.economia_liquida_anual = RMul(R(12 * 70), Tariff(ano))

\* A year where the saving grows with generation.
GrowsWithGeneration ==
    /\ Iterated
    /\ SignsAsClaimed
    /\ fc_args.geracao_mensal_inicial = R(200)
    /\ RLt(SavingWithGeneration(Zero), loc.economia_liquida_anual)

----------------------------------------------------------------------------
(* Claims about the public-lighting fee in calcular_fluxo_caixa.           *)

\* The fees the run is compared with.
OtherFees == {R(0), R(60)}

\* The arguments of a call that differs from this one in
\* taxa_iluminacao_publica only.
WithFee(t) == [fc_args EXCEPT !.taxa_iluminacao_publica = t]

\* The accumulated with-solar and without-solar values of that call after k
\* years.
RECURSIVE FluxoWithFee(_, _)
FluxoWithFee(t, k) ==
    IF k = 0 THEN fluxo_inicial(fc_args.valor_final_investimento)
    ELSE acumular(FluxoWithFee(t, k - 1), Locals(WithFee(t), k).economia_liquida_anual)

RECURSIVE GastoWithFee(_, _)
GastoWithFee(t, k) ==
    IF k = 0 THEN Zero
    ELSE acumular(GastoWithFee(t, k - 1), Locals(WithFee(t), k).gasto_anual_sem_solar)

\* 12 * (1 + inflacao_energia)^0 + ... + 12 * (1 + inflacao_energia)^(k-1)
RECURSIVE InflatedMonths(_)
InflatedMonths(k) ==
    IF k = 0 THEN Zero
    ELSE RAdd(InflatedMonths(k - 1),
              RMul(R(12), ClaimPow(RAdd(One, fc_args.inflacao_energia), k - 1)))

\* C22: two runs of calcular_fluxo_caixa that differ only in
\* taxa_iluminacao_publica produce the same accumulated with-solar series, and
\* their without-solar series differ by the accumulated inflated fee: so it is
\* for the entry each pass of the loop appends, and the frame returned holds
\* those entries.
ThmC22 ==
    /\ (fc_pc = "loop" /\ ano >= 1) =>
           \A t \in OtherFees :
               /\ fluxo_caixa_acumulado_list[ano] = FluxoWithFee(t, ano)
               /\ RSub(gasto_sem_solar_acumulado_list[ano], GastoWithFee(t, ano)) =
                      RMul(RSub(fc_args.taxa_iluminacao_publica, t), InflatedMonths(ano))
    /\ Returned =>
           /\ df_plot.fluxo = fluxo_caixa_acumulado_list
           /\ df_plot.gasto = gasto_sem_solar_acumulado_list

WitC22 ==
    /\ fc_pc = "done"
    /\ fc_args.taxa_iluminacao_publica = R(30)
    /\ fc_args.inflacao_energia = <<1, 2>>
    /\ Len(df_plot.fluxo) = 3
    /\ payback_ano_num = 2
    /\ df_plot.fluxo[3] = FluxoWithFee(Zero, 3)
    /\ RSub(df_plot.gasto[3], GastoWithFee(Zero, 3)) = R(1710)

====
